---- MODULE Spec2Model ----
(***************************************************************************)
(* The rolling raw-sample buffer, the trimmer and the WAV encoder of the   *)
(* Listener page (Home component), with the recording controls that drive  *)
(* them.                                                                   *)
(*                                                                         *)
(* A sample is a Float32 amplitude.  It is represented by the integer      *)
(* x * 2^30 (fixed point with 30 fractional bits): 0.5 is 2^29, 1.0 is     *)
(* 2^30.  The modelled samples have at most 24 significant bits, so each   *)
(* is a float the code can hold exactly, and its product with 0x8000 or    *)
(* 0x7FFF is exact in a double.                                            *)
(* A chunk is a sequence of samples, audioBufferRef a sequence of chunks.  *)
(* A byte is an integer in 0..255.                                         *)
(***************************************************************************)
EXTENDS Integers, Sequences, FiniteSets, TLC

\* ------------------------------------------------------------------ bounds

\* Capture callbacks delivered between two clearings of audioBufferRef.
MaxCaptures == 2
\* dataavailable events delivered between two clearings of audioChunksRef.
MaxBlobs == 1
\* startRecording calls that reach getUserMedia over one run of the page.
MaxStarts == 2
\* Capture callbacks of one session in the specification of the buffer alone.
MaxAppends == 5
\* dataavailable events of one session in the specification of the recorder
\* chunks alone.
ChunkMaxEvents == 302
\* How far beyond the retained count a requested sample count is tried.
MaxExtraRequested == 2

\* Lengths of the chunks the capture callback is given.
ChunkSizes == {15, 31}
\* Sample rates an AudioContext reports.
SampleRates == {1, 11}
\* Blob sizes a dataavailable event carries.
BlobSizes == {0, 1}
\* The export windows the user picks in the selector.
PickedDurations == {5, 30}
\* Lengths of the chunks in the specification of the buffer alone.
BufferChunkSizes == {0, 1, 15, 31}
\* The worked scenario of the encoder: the sample rate and the sample 0.5.
Scenario == [rate |-> 16000, sample |-> 536870912]
\* Samples the encoder is fed one at a time: zero, the smallest steps, values
\* around one quantization step, around 0.5, 0.25 and 0.75, the largest
\* values below 1, 1 itself and values beyond it, each with its negative.
EncodeMagnitudes ==
    {0, 1, 32767, 32768, 32769, 65535, 65536, 65538, 98304, 268435456,
     536870912, 536887296, 536903680, 805306368, 1073709056, 1073741760,
     1073741824, 1073741952, 1310720000}
EncodeSamples == EncodeMagnitudes \cup {-x : x \in EncodeMagnitudes}
\* Sample rates the header of the encoder is read back at.
WavRates == {1, 16000, 44100, 96000}

\* ------------------------------------------------------- program constants

\* 0x8000, the scale of a negative sample.
NegScale == 32768
\* 0x7FFF, the scale of a sample >= 0.
PosScale == 32767
\* useState(30): the retention window in seconds.
BufferLimitDefault == 30
\* useState(10): the export window in seconds the page starts with.
TranscribeDurationDefault == 10
\* useRef<number>(44100): the sample rate before any session.
SampleRateDefault == 44100
\* The <option> values of the export-window selector.
TranscribeDurations == {5, 10, 15, 20, 30}
\* The timeslice of mediaRecorder.start(100), in milliseconds.
RecordingIntervalMs == 100

\* ------------------------------------------------------------- arithmetic

Min(a, b) == IF a <= b THEN a ELSE b
Max(a, b) == IF a >= b THEN a ELSE b

\* Math.ceil(a / b) for a >= 0, b > 0.
CeilDiv(a, b) == (a + b - 1) \div b

\* Truncation toward zero of a / b, b > 0 (the integer conversion of setInt16).
TruncDiv(a, b) == IF a >= 0 THEN a \div b ELSE -((-a) \div b)

\* a slip: the bytes written most significant first (littleEndian omitted).
RECURSIVE BigEndian(_, _)
BigEndian(v, n) ==
    IF n = 0 THEN <<>> ELSE BigEndian(v \div 256, n - 1) \o <<v % 256>>

\* a value as `n` little-endian bytes (DataView.setUintN(..., true)).
RECURSIVE LittleEndian(_, _)
LittleEndian(v, n) ==
    IF n = 0 THEN <<>> ELSE <<v % 256>> \o LittleEndian(v \div 256, n - 1)

\* audioBuffers.reduce((sum, buf) => sum + buf.length, 0)
RECURSIVE SumLengths(_)
SumLengths(audioBuffers) ==
    IF audioBuffers = <<>> THEN 0
    ELSE Len(Head(audioBuffers)) + SumLengths(Tail(audioBuffers))

\* a slip: the chunks visited newest first.
RECURSIVE FlattenReversed(_)
FlattenReversed(audioBuffers) ==
    IF audioBuffers = <<>> THEN <<>>
    ELSE FlattenReversed(Tail(audioBuffers)) \o Head(audioBuffers)

\* the samples of a list of chunks, oldest first, as the nested for loops of
\* trimAudioBuffer visit them.
RECURSIVE Flatten(_)
Flatten(audioBuffers) ==
    IF audioBuffers = <<>> THEN <<>>
    ELSE Head(audioBuffers) \o Flatten(Tail(audioBuffers))

\* --------------------------------------------------------- trimAudioBuffer

\* a slip: startSample left at 0, so the first samples are kept, not the last.
TrimmedFromStart(audioBuffers, samplesToKeep) ==
    LET totalSamples == SumLengths(audioBuffers)
        length       == Min(samplesToKeep, totalSamples)
        flat         == Flatten(audioBuffers)
    IN  [outputIndex \in 1..length |-> flat[outputIndex]]

\* a slip: the output allocated with samplesToKeep elements, so a request
\* beyond the retained count is padded with zeros.
TrimmedPadded(audioBuffers, samplesToKeep) ==
    LET totalSamples == SumLengths(audioBuffers)
        startSample  == Max(0, totalSamples - samplesToKeep)
        flat         == Flatten(audioBuffers)
    IN  [outputIndex \in 1..samplesToKeep |->
            IF startSample + outputIndex <= totalSamples
            THEN flat[startSample + outputIndex] ELSE 0]

\* The Float32Array trimAudioBuffer returns: sample currentSample is copied to
\* trimmed[outputIndex] when currentSample >= startSample and the output is
\* not yet full.
TrimmedOf(audioBuffers, samplesToKeep) ==
    LET totalSamples == SumLengths(audioBuffers)
        startSample  == Max(0, totalSamples - samplesToKeep)
        length       == Min(samplesToKeep, totalSamples)
        flat         == Flatten(audioBuffers)
    IN  [outputIndex \in 1..length |-> flat[startSample + outputIndex]]

\* the chunks of a list from the first one that reaches beyond startSample.
RECURSIVE DropBefore(_, _)
DropBefore(audioBuffers, startSample) ==
    IF audioBuffers # <<>> /\ Len(Head(audioBuffers)) <= startSample
    THEN DropBefore(Tail(audioBuffers), startSample - Len(Head(audioBuffers)))
    ELSE audioBuffers

\* a slip: a trim that shifts the chunks lying before startSample off the
\* list it was handed.
trimAudioBufferShifting(audioBuffers, samplesToKeep) ==
    [trimmed      |-> TrimmedOf(audioBuffers, samplesToKeep),
     audioBuffers |-> DropBefore(audioBuffers,
                                 Max(0, SumLengths(audioBuffers) - samplesToKeep))]

\* trimAudioBuffer: the array it returns, and the chunk list it was handed as
\* the call leaves it (the list is passed by reference; the function only
\* reads it).
trimAudioBuffer(audioBuffers, samplesToKeep) ==
    [trimmed      |-> TrimmedOf(audioBuffers, samplesToKeep),
     audioBuffers |-> audioBuffers]

\* ----------------------------------------------------------- createWavBlob

\* writeString: the char codes of an ASCII tag.
TagRIFF == <<82, 73, 70, 70>>
TagWAVE == <<87, 65, 86, 69>>
TagFmt  == <<102, 109, 116, 32>>
TagData == <<100, 97, 116, 97>>

\* the representation of the sample 1.0: 2^30 = 0x8000 * 0x8000.
SampleUnit == NegScale * NegScale

\* Math.max(-1, Math.min(1, x))
Clamp(sample) == Max(-SampleUnit, Min(SampleUnit, sample))

\* the integer setInt16 makes of the product sample * scale: the product
\* truncated toward zero.  The product of the representations is divided by
\* SampleUnit in two steps of 0x8000, high and low half of the sample apart,
\* so that no intermediate value leaves 32 bits; the result is that of the
\* one division.
ScaleTrunc(sample, scale) ==
    LET hi == TruncDiv(sample, NegScale)
        lo == sample - hi * NegScale
    IN  TruncDiv(hi * scale + TruncDiv(lo * scale, NegScale), NegScale)

\* a slip: the clamp left out, so setInt16 wraps a product beyond 16 bits.
QuantizeUnclamped(x) ==
    IF x < 0 THEN ScaleTrunc(x, NegScale) ELSE ScaleTrunc(x, PosScale)

\* a slip: 0x8000 as the scale of every sample.
QuantizeOneScale(x) == ScaleTrunc(Clamp(x), NegScale)

\* a slip: the two scales swapped.
QuantizeSwapped(x) ==
    LET sample == Clamp(x)
    IN  IF sample < 0 THEN ScaleTrunc(sample, PosScale)
        ELSE ScaleTrunc(sample, NegScale)

\* the value setInt16 stores for one sample: the clamped sample times 0x8000
\* when negative, times 0x7FFF otherwise, truncated toward zero.
Quantize(x) ==
    LET sample == Clamp(x)
    IN  IF sample < 0 THEN ScaleTrunc(sample, NegScale)
        ELSE ScaleTrunc(sample, PosScale)

\* the two's-complement 16-bit pattern of a value, little-endian.
Int16Bytes(q) == LittleEndian((q + 65536) % 65536, 2)

\* the 44-byte header createWavBlob writes for `length` samples.
WavHeader(length, rate) ==
    TagRIFF \o LittleEndian(36 + length * 2, 4) \o TagWAVE
    \o TagFmt \o LittleEndian(16, 4)
    \o LittleEndian(1, 2) \o LittleEndian(1, 2)
    \o LittleEndian(rate, 4) \o LittleEndian(rate * 2, 4)
    \o LittleEndian(2, 2) \o LittleEndian(16, 2)
    \o TagData \o LittleEndian(length * 2, 4)

\* the payload: sample i at offset 44 + 2i, low byte first.
WavPayload(audioData) ==
    [k \in 1..(2 * Len(audioData)) |->
        Int16Bytes(Quantize(audioData[(k + 1) \div 2]))[2 - (k % 2)]]

\* createWavBlob(audioData, sampleRate): the bytes of the blob.
createWavBlob(audioData, rate) ==
    WavHeader(Len(audioData), rate) \o WavPayload(audioData)

\* ------------------------------------------- the export length (doubles)

\* floor(log2(n)) for n >= 1.
RECURSIVE Log2Floor(_)
Log2Floor(n) == IF n < 2 THEN 0 ELSE 1 + Log2Floor(n \div 2)

\* 2^e for e >= 0.
RECURSIVE Pow2(_)
Pow2(e) == IF e = 0 THEN 1 ELSE 2 * Pow2(e - 1)

\* 2^e mod m.
RECURSIVE Pow2Mod(_, _)
Pow2Mod(e, m) == IF e = 0 THEN 1 % m ELSE (2 * Pow2Mod(e - 1, m)) % m

\* the binary exponent of the double nearest t / r (t, r >= 1): the e with
\* 2^e <= t / r < 2^(e+1).
RECURSIVE QuotientExponent(_, _)
QuotientExponent(t, r) ==
    IF t >= 2 * r THEN 1 + QuotientExponent(t, 2 * r)
    ELSE IF t >= r THEN 0
    ELSE QuotientExponent(2 * t, r) - 1

\* Math.floor((t / r) * r) in IEEE-754 double arithmetic, for integers
\* t >= 0, r >= 1.  The quotient is rounded to a 53-bit significand
\* Q = round(t * 2^s / r), s = 52 - QuotientExponent(t, r); the product with r
\* then differs from t by -rem * 2^(-s) when the quotient was rounded down
\* (rem = t * 2^s mod r), and the rounded product falls below t exactly when
\* that difference exceeds half the spacing of the doubles just below t.  The
\* floor is then t - 1, otherwise t.
FloorRoundTrip(t, r) ==
    IF t = 0 THEN 0
    ELSE
      LET eq    == QuotientExponent(t, r)
          s     == 52 - eq
          rem   == ((t % r) * Pow2Mod(s, r)) % r
          m2    == ((t % (2 * r)) * Pow2Mod(s, 2 * r)) % (2 * r)
          qOdd  == (m2 - rem) \div r
          down  == 2 * rem < r \/ (2 * rem = r /\ qOdd = 0)
          gap   == Pow2(Log2Floor(t) - eq)
          isPow == Pow2(Log2Floor(t)) = t
      IN  IF rem # 0 /\ down /\ rem * (IF isPow THEN 4 ELSE 2) > gap
          THEN t - 1 ELSE t

\* a slip: Math.max for Math.min, so the export never is shorter than what
\* is retained.
SamplesToKeepMax(totalSamples, rate, duration) ==
    IF duration * rate >= totalSamples THEN duration * rate
    ELSE FloorRoundTrip(totalSamples, rate)

\* samplesToKeep of transcribeAudio:
\*   totalAvailableDuration = totalSamples / sampleRate.current
\*   requestedDuration      = Math.min(transcribeDurationSeconds, totalAvailableDuration)
\*   samplesToKeep          = Math.floor(requestedDuration * sampleRate.current)
\* When duration * rate <= totalSamples the quotient is >= duration, the
\* minimum is the duration and its product with the rate is exact.
SamplesToKeep(totalSamples, rate, duration) ==
    IF duration * rate <= totalSamples THEN duration * rate
    ELSE FloorRoundTrip(totalSamples, rate)

\* ------------------------------------------------------ the capture handlers

\* a slip: `if` for `while`, so one chunk at most is shifted per callback.
EvictOnce(audioBuffers, totalSamples, maxSamples) ==
    IF totalSamples > maxSamples /\ Len(audioBuffers) > 1
    THEN Tail(audioBuffers) ELSE audioBuffers

\* a slip: `>=` for `>`, so a buffer exactly at the ceiling loses a chunk.
RECURSIVE EvictAtCeiling(_, _, _)
EvictAtCeiling(audioBuffers, totalSamples, maxSamples) ==
    IF totalSamples >= maxSamples /\ Len(audioBuffers) > 1
    THEN EvictAtCeiling(Tail(audioBuffers), totalSamples - Len(Head(audioBuffers)),
                        maxSamples)
    ELSE audioBuffers

\* a slip: the loop lacks the length > 1 test and may remove the chunk
\* that was just pushed.
RECURSIVE EvictToCeiling(_, _, _)
EvictToCeiling(audioBuffers, totalSamples, maxSamples) ==
    IF totalSamples > maxSamples /\ Len(audioBuffers) > 0
    THEN EvictToCeiling(Tail(audioBuffers), totalSamples - Len(Head(audioBuffers)),
                        maxSamples)
    ELSE audioBuffers

\* a slip: the loop goes on while the total exceeds half the ceiling.
RECURSIVE EvictBelowHalf(_, _, _)
EvictBelowHalf(audioBuffers, totalSamples, maxSamples) ==
    IF 2 * totalSamples > maxSamples /\ Len(audioBuffers) > 1
    THEN EvictBelowHalf(Tail(audioBuffers), totalSamples - Len(Head(audioBuffers)),
                        maxSamples)
    ELSE audioBuffers

\* a slip: the loop removes from the end of the list, the newest chunks.
RECURSIVE EvictNewest(_, _, _)
EvictNewest(audioBuffers, totalSamples, maxSamples) ==
    IF totalSamples > maxSamples /\ Len(audioBuffers) > 1
    THEN EvictNewest(SubSeq(audioBuffers, 1, Len(audioBuffers) - 1),
                     totalSamples - Len(audioBuffers[Len(audioBuffers)]), maxSamples)
    ELSE audioBuffers

\* the while loop of onaudioprocess: shift whole chunks while the total
\* exceeds maxSamples and more than one chunk is left.
RECURSIVE Evict(_, _, _)
Evict(audioBuffers, totalSamples, maxSamples) ==
    IF totalSamples > maxSamples /\ Len(audioBuffers) > 1
    THEN Evict(Tail(audioBuffers), totalSamples - Len(Head(audioBuffers)), maxSamples)
    ELSE audioBuffers

\* a capture callback that returns at once when its input is empty.
onaudioprocessSkippingEmpty(audioBuffers, inputData, rate, limitSeconds) ==
    IF Len(inputData) = 0 THEN audioBuffers
    ELSE LET pushed == Append(audioBuffers, inputData)
         IN  Evict(pushed, SumLengths(pushed), rate * limitSeconds)

\* a capture callback that pushes its chunk and leaves the eviction to a
\* later task.
onaudioprocessPushOnly(audioBuffers, inputData, rate, limitSeconds) ==
    Append(audioBuffers, inputData)

\* processorRef.current.onaudioprocess: push a copy of the input, then evict.
onaudioprocess(audioBuffers, inputData, rate, limitSeconds) ==
    LET pushed       == Append(audioBuffers, inputData)
        maxSamples   == rate * limitSeconds
        totalSamples == SumLengths(pushed)
    IN  Evict(pushed, totalSamples, maxSamples)

\* a slip: the excess is cut from the end of the list, the newest chunks.
DropNewest(chunks, maxChunks) ==
    IF Len(chunks) > maxChunks THEN SubSeq(chunks, 1, maxChunks) ELSE chunks

\* the while loop of ondataavailable: shift while more than maxChunks are held.
RECURSIVE ShiftChunks(_, _)
ShiftChunks(chunks, maxChunks) ==
    IF Len(chunks) > maxChunks THEN ShiftChunks(Tail(chunks), maxChunks) ELSE chunks

\* mediaRecorder.ondataavailable: a non-empty blob is pushed and the list cut
\* to maxChunks; an empty blob is dropped.
ondataavailable(chunks, blob, limitSeconds) ==
    IF blob.size > 0
    THEN ShiftChunks(Append(chunks, blob.id),
                     CeilDiv(limitSeconds * 1000, RecordingIntervalMs))
    ELSE chunks

\* ------------------------------------------------------------------- state

VARIABLES
    state,                    \* useState<RecordingState>('idle')
    isTranscribing,           \* useState(false)
    bufferLimitSeconds,       \* useState(30)
    mediaDevices,             \* navigator.mediaDevices is defined: the page is a secure context
    mounted,                  \* the Home component is mounted: its buttons can be clicked
    transcribeDurationSeconds,\* useState(10)
    sampleRate,               \* sampleRate.current
    audioBufferRef,           \* audioBufferRef.current: the retained chunks
    audioChunksRef,           \* audioChunksRef.current: the retained blobs (ids)
    pipelines,                \* the recorder / stream / AudioContext triples that are referenced or can still fire an event; "none" for a recorder, context or connected processor that was never made
    mediaRecorderRef,         \* index into pipelines, 0 for null
    streamRef,                \* index into pipelines, 0 for null
    audioContextRef,          \* index into pipelines, 0 for null
    pendingStarts,            \* startRecording calls awaiting getUserMedia
    tpc,                      \* the await the transcribeAudio call in flight stands at: "wait", "fetch", "text", "errorText"; "idle" if none
    samplesToKeep,            \* what the last handler run computed as samplesToKeep, -1 if nothing
    trimmedAudioData,         \* the snapshot the last handler run took, <<>> if none
    audioBlob,                \* the bytes of the blob the last handler run handed to fetch, <<>> if none
    alertMsg,                 \* the alert the last handler run raised, "" if none
    loggedError,              \* the part of the try block of startRecording whose exception the catch block logged in the last handler run, "" if none
    history,                  \* the chunks pushed since audioBufferRef was last cleared
    capturedBy,               \* for each chunk of history, whether the context then referenced pushed it
    blobs,                    \* dataavailable events since audioChunksRef was last cleared
    arrived,                  \* the non-empty blobs (ids) among them, in arrival order
    inFlight                  \* transcribeAudio calls past setIsTranscribing(true), not yet through finally

vars == <<state, isTranscribing, bufferLimitSeconds, mediaDevices, mounted, transcribeDurationSeconds,
          sampleRate, audioBufferRef, audioChunksRef, pipelines, mediaRecorderRef,
          streamRef, audioContextRef, pendingStarts, tpc, samplesToKeep,
          trimmedAudioData, audioBlob, alertMsg, loggedError, history, capturedBy,
          blobs, arrived, inFlight>>

\* the variables no capture-side handler writes
pageVars == <<state, isTranscribing, bufferLimitSeconds, mediaDevices, mounted, transcribeDurationSeconds,
              pendingStarts, tpc, inFlight>>

\* a handler run that takes no snapshot and hands nothing to fetch
NoExport ==
    /\ samplesToKeep' = -1
    /\ trimmedAudioData' = <<>>
    /\ audioBlob' = <<>>

\* The parts of the try block of startRecording, each named after its first
\* statement; an exception thrown anywhere in a part leaves the same refs
\* and buffers behind.
ErrorNone          == ""
\* line 119: navigator.mediaDevices undefined, or getUserMedia rejected.
ErrorGetUserMedia  == "getUserMedia"
\* lines 120-141, after streamRef is set: MediaRecorder.isTypeSupported,
\* new MediaRecorder.
ErrorMediaRecorder == "MediaRecorder"
\* lines 142-146, after mediaRecorderRef is set: new AudioContext.
ErrorAudioContext  == "AudioContext"
\* lines 147-155, after audioContextRef and sampleRate.current are set:
\* createMediaStreamSource, createAnalyser, connect, createScriptProcessor.
ErrorSource        == "createMediaStreamSource"
\* lines 156-200, after audioBufferRef is emptied and onaudioprocess is
\* assigned: the two connect calls of the processor, animate, the timer.
ErrorConnect       == "connect"
\* lines 202-222, after audioChunksRef is emptied: mediaRecorder.start.
ErrorStart         == "start"

AlertNone          == ""
AlertMicrophone    == "Error accessing microphone. Please ensure you have granted microphone permissions."
AlertNoAudio       == "No audio recorded"
AlertNoData        == "No audio data available for transcription"
AlertNoRawData     == "No raw audio data available"
AlertTranscribing  == "Error transcribing audio. Please ensure the API server is running."

\* the i-th sample (i >= 0) the capture device delivers after the buffer was
\* cleared: pairwise distinct multiples of 2^-15 spread over [-1.22, 1.22],
\* so negative and positive, inside and outside [-1, 1].
SampleAt(i) == (((i * 7919) % 80001) - 40000) * NegScale

\* the input buffer of the next capture callback, n samples long.
InputData(n) == [j \in 1..n |-> SampleAt(SumLengths(history) + j - 1)]

Init ==
    /\ state = "idle"
    /\ isTranscribing = FALSE
    /\ bufferLimitSeconds = BufferLimitDefault
    /\ mediaDevices \in BOOLEAN
    /\ mounted = TRUE
    /\ transcribeDurationSeconds = TranscribeDurationDefault
    /\ sampleRate = SampleRateDefault
    /\ audioBufferRef = <<>>
    /\ audioChunksRef = <<>>
    /\ pipelines = <<>>
    /\ mediaRecorderRef = 0
    /\ streamRef = 0
    /\ audioContextRef = 0
    /\ pendingStarts = 0
    /\ tpc = "idle"
    /\ samplesToKeep = -1
    /\ trimmedAudioData = <<>>
    /\ audioBlob = <<>>
    /\ alertMsg = AlertNone
    /\ loggedError = ErrorNone
    /\ history = <<>>
    /\ capturedBy = <<>>
    /\ blobs = 0
    /\ arrived = <<>>
    /\ inFlight = 0

\* ------------------------------------------------------------- the objects

\* the context of a triple delivers audioprocess events: it runs, and its
\* ScriptProcessorNode has the onaudioprocess handler and is connected.
Capturing(q) == q.context = "running" /\ q.processor = "connected"

\* a triple that fires no event any more: its recorder is stopped with its
\* last dataavailable event delivered, or was never constructed or started,
\* and its context is closed, was never constructed or has no connected
\* processor.
Inert(q) ==
    /\ q.recorder \in {"inactive", "none"}
    /\ ~q.final
    /\ ~Capturing(q)

\* the first n triples of pl without those that are inert and referenced by
\* none of refs: nothing reaches them any more, they are garbage.
RECURSIVE KeptUpTo(_, _, _)
KeptUpTo(pl, refs, n) ==
    IF n = 0 THEN <<>>
    ELSE IF n \in refs \/ ~Inert(pl[n])
         THEN Append(KeptUpTo(pl, refs, n - 1), pl[n])
         ELSE KeptUpTo(pl, refs, n - 1)

\* the triples of pl that are referenced (an index in refs) or can still fire.
Reachable(pl, refs) == KeptUpTo(pl, refs, Len(pl))

\* where a reference to triple ref of pl points in Reachable(pl, refs), ref
\* being 0 or in refs.
Moved(pl, refs, ref) == IF ref = 0 THEN 0 ELSE Len(KeptUpTo(pl, refs, ref))

\* ----------------------------------------------------------- startRecording

\* A click on the start button (state idle) or the resume button (state
\* stopped): startRecording runs up to its await of getUserMedia.  Where
\* navigator.mediaDevices is undefined the call expression of line 119 throws
\* a TypeError before any promise exists, and the catch block logs and alerts
\* within the click.
StartClick ==
    /\ mounted
    /\ state \in {"idle", "stopped"}
    /\ Len(pipelines) + pendingStarts < MaxStarts
    /\ IF mediaDevices
       THEN /\ pendingStarts' = pendingStarts + 1
            /\ alertMsg' = AlertNone
            /\ loggedError' = ErrorNone
       ELSE /\ pendingStarts' = pendingStarts
            /\ alertMsg' = AlertMicrophone
            /\ loggedError' = ErrorGetUserMedia
    /\ NoExport
    /\ UNCHANGED <<state, isTranscribing, bufferLimitSeconds, mediaDevices, mounted,
                   transcribeDurationSeconds, sampleRate, audioBufferRef,
                   audioChunksRef, pipelines, mediaRecorderRef, streamRef,
                   audioContextRef, tpc, history, capturedBy, blobs, arrived,
                   inFlight>>

\* where the try block of startRecording can be left by an exception once
\* getUserMedia has resolved, or nowhere.
StartThrows == {ErrorNone, ErrorMediaRecorder, ErrorAudioContext, ErrorSource,
                ErrorConnect, ErrorStart}

\* whether the processor of a start that throws in the given part can have
\* been left delivering audioprocess events.  It has its handler only from
\* line 158 on.  In the part of ErrorConnect it has no connection when the
\* first connect call (177) throws, both connections when animate or the
\* timer throws, and its input alone when the second connect call (178)
\* throws, which some browsers take as a reason to deliver and others not.
Wirings(thrown) ==
    IF thrown = ErrorConnect THEN {"connected", "none"}
    ELSE IF thrown \in {ErrorNone, ErrorStart} THEN {"connected"}
    ELSE {"none"}

\* The rest of startRecording from the resolution of getUserMedia on, the new
\* AudioContext reporting the rate r: to its end when nothing throws, else up
\* to the statement that throws and then through the catch block, which logs
\* and alerts and undoes nothing.  The stream is referenced at once (120);
\* the recorder is constructed and referenced (141, 142) unless the part of
\* ErrorMediaRecorder throws; the context is constructed and referenced and
\* the rate taken (146, 147) unless that part or new AudioContext throws;
\* audioBufferRef is emptied (156) from the part of ErrorConnect on and
\* audioChunksRef (202) from the part of ErrorStart on; the recorder records
\* and the state changes (222, 223) only when nothing throws.
StartRecordingResumed(r, thrown, wiring) ==
    LET hasRecorder  == thrown # ErrorMediaRecorder
        hasContext   == thrown \notin {ErrorMediaRecorder, ErrorAudioContext}
        bufferReset  == thrown \in {ErrorConnect, ErrorStart, ErrorNone}
        chunksReset  == thrown \in {ErrorStart, ErrorNone}
        kept         == (IF hasRecorder THEN {} ELSE {mediaRecorderRef})
                        \cup (IF hasContext THEN {} ELSE {audioContextRef})
        triple       == [recorder  |-> IF ~hasRecorder THEN "none"
                                       ELSE IF thrown = ErrorNone THEN "recording"
                                       ELSE "inactive",
                         final     |-> FALSE,
                         tracks    |-> "live",
                         context   |-> IF hasContext THEN "running" ELSE "none",
                         processor |-> wiring]
    IN  /\ pipelines' = Append(Reachable(pipelines, kept), triple)
        /\ streamRef' = Len(pipelines')
        /\ mediaRecorderRef' = IF hasRecorder THEN Len(pipelines')
                               ELSE Moved(pipelines, kept, mediaRecorderRef)
        /\ audioContextRef' = IF hasContext THEN Len(pipelines')
                              ELSE Moved(pipelines, kept, audioContextRef)
        /\ sampleRate' = IF hasContext THEN r ELSE sampleRate
        /\ IF bufferReset
           THEN /\ audioBufferRef' = <<>>
                /\ history' = <<>>
                /\ capturedBy' = <<>>
           ELSE UNCHANGED <<audioBufferRef, history, capturedBy>>
        /\ IF chunksReset
           THEN /\ audioChunksRef' = <<>>
                /\ blobs' = 0
                /\ arrived' = <<>>
           ELSE UNCHANGED <<audioChunksRef, blobs, arrived>>
        /\ state' = IF thrown = ErrorNone THEN "recording" ELSE state
        /\ alertMsg' = IF thrown = ErrorNone THEN AlertNone ELSE AlertMicrophone
        /\ loggedError' = thrown

\* getUserMedia resolves and startRecording runs on.
GetUserMediaResolve ==
    /\ pendingStarts > 0
    /\ \E r \in SampleRates, thrown \in StartThrows :
         \E wiring \in Wirings(thrown) : StartRecordingResumed(r, thrown, wiring)
    /\ pendingStarts' = pendingStarts - 1
    /\ NoExport
    /\ UNCHANGED <<isTranscribing, bufferLimitSeconds, mediaDevices, mounted,
                   transcribeDurationSeconds, tpc, inFlight>>

\* a slip: the catch block also empties the two buffers.
GetUserMediaRejectClearing ==
    /\ pendingStarts > 0
    /\ pendingStarts' = pendingStarts - 1
    /\ audioBufferRef' = <<>>
    /\ audioChunksRef' = <<>>
    /\ alertMsg' = AlertMicrophone
    /\ loggedError' = ErrorGetUserMedia
    /\ NoExport
    /\ UNCHANGED <<state, isTranscribing, bufferLimitSeconds, mediaDevices, mounted,
                   transcribeDurationSeconds, sampleRate, pipelines,
                   mediaRecorderRef, streamRef, audioContextRef, tpc, history,
                   capturedBy, blobs, arrived, inFlight>>

\* getUserMedia rejects: the catch block logs and alerts.
GetUserMediaReject ==
    /\ pendingStarts > 0
    /\ pendingStarts' = pendingStarts - 1
    /\ alertMsg' = AlertMicrophone
    /\ loggedError' = ErrorGetUserMedia
    /\ NoExport
    /\ UNCHANGED <<state, isTranscribing, bufferLimitSeconds, mediaDevices, mounted,
                   transcribeDurationSeconds, sampleRate, audioBufferRef,
                   audioChunksRef, pipelines, mediaRecorderRef, streamRef,
                   audioContextRef, tpc, history, capturedBy, blobs, arrived,
                   inFlight>>

\* ------------------------------------------------------------------ unmount

\* Home unmounts: the cleanup of the effect closes the context
\* audioContextRef points at and leaves the reference, the recorder and the
\* stream as they are.  No button can be clicked afterwards; the events and
\* the awaited steps that are under way still arrive.
Unmount ==
    /\ mounted
    /\ mounted' = FALSE
    /\ pipelines' = [p \in 1..Len(pipelines) |->
                        IF p = audioContextRef
                        THEN [pipelines[p] EXCEPT !.context = "closed"]
                        ELSE pipelines[p]]
    /\ alertMsg' = AlertNone
    /\ loggedError' = ErrorNone
    /\ NoExport
    /\ UNCHANGED <<state, isTranscribing, bufferLimitSeconds, mediaDevices,
                   transcribeDurationSeconds, sampleRate, audioBufferRef,
                   audioChunksRef, mediaRecorderRef, streamRef, audioContextRef,
                   pendingStarts, tpc, history, capturedBy, blobs, arrived,
                   inFlight>>

\* ------------------------------------------------------- capture callbacks

\* An audioprocess event of the capturing context of pipeline p carrying
\* inputData: its handler pushes the chunk and evicts, reading
\* audioBufferRef.current, sampleRate.current and bufferLimitSeconds.
AudioProcess(p, inputData) ==
    /\ Capturing(pipelines[p])
    /\ audioBufferRef' = onaudioprocess(audioBufferRef, inputData, sampleRate,
                                        bufferLimitSeconds)
    /\ history' = Append(history, inputData)
    /\ capturedBy' = Append(capturedBy, p = audioContextRef)
    /\ alertMsg' = AlertNone
    /\ loggedError' = ErrorNone
    /\ NoExport
    /\ UNCHANGED <<pageVars, sampleRate, audioChunksRef, pipelines, mediaRecorderRef,
                   streamRef, audioContextRef, blobs, arrived>>

Capture ==
    /\ Len(history) < MaxCaptures
    /\ \E p \in 1..Len(pipelines), n \in ChunkSizes : AudioProcess(p, InputData(n))

\* A dataavailable event of the recorder of pipeline p carrying a blob of the
\* given size (one per timeslice while the recorder records, and one last
\* event after stop()): its handler pushes a non-empty blob and shifts.
DataAvailableEvent(p, size) ==
    /\ pipelines[p].recorder = "recording" \/ pipelines[p].final
    /\ LET delivered == [pipelines EXCEPT ![p].final = FALSE]
           refs      == {mediaRecorderRef, streamRef, audioContextRef}
       IN  /\ pipelines' = Reachable(delivered, refs)
           /\ mediaRecorderRef' = Moved(delivered, refs, mediaRecorderRef)
           /\ streamRef' = Moved(delivered, refs, streamRef)
           /\ audioContextRef' = Moved(delivered, refs, audioContextRef)
    /\ audioChunksRef' = ondataavailable(audioChunksRef,
                                         [id |-> Len(arrived) + 1, size |-> size],
                                         bufferLimitSeconds)
    /\ arrived' = IF size > 0 THEN Append(arrived, Len(arrived) + 1) ELSE arrived
    /\ blobs' = blobs + 1
    /\ alertMsg' = AlertNone
    /\ loggedError' = ErrorNone
    /\ NoExport
    /\ UNCHANGED <<pageVars, sampleRate, audioBufferRef, history, capturedBy>>

DataAvailable ==
    /\ blobs < MaxBlobs
    /\ \E p \in 1..Len(pipelines), size \in BlobSizes : DataAvailableEvent(p, size)

\* ------------------------------------------------------------ stopRecording

\* stopRecording acts only when a recorder and a stream are referenced.
StopActs == mediaRecorderRef # 0 /\ streamRef # 0

\* one pipeline after stopRecording: the referenced recorder is stopped (one
\* last dataavailable event follows), the tracks of the referenced stream are
\* ended, the referenced context is closed.
StoppedPipeline(p) ==
    LET q == pipelines[p]
    IN  [recorder |-> IF p = mediaRecorderRef THEN "inactive" ELSE q.recorder,
         final    |-> IF p = mediaRecorderRef /\ q.recorder = "recording"
                      THEN TRUE ELSE q.final,
         tracks   |-> IF p = streamRef THEN "ended" ELSE q.tracks,
         context  |-> IF p = audioContextRef THEN "closed" ELSE q.context,
         processor |-> q.processor]

\* a slip: stopRecording puts the page back to idle.
stopRecordingToIdle ==
    IF StopActs
    THEN [pipelines       |-> [p \in 1..Len(pipelines) |-> StoppedPipeline(p)],
          state           |-> "idle",
          audioContextRef |-> 0]
    ELSE [pipelines       |-> pipelines,
          state           |-> state,
          audioContextRef |-> audioContextRef]

\* stopRecording(): the pipelines, the state and the context reference it leaves.
stopRecording ==
    IF StopActs
    THEN [pipelines       |-> [p \in 1..Len(pipelines) |-> StoppedPipeline(p)],
          state           |-> "stopped",
          audioContextRef |-> 0]
    ELSE [pipelines       |-> pipelines,
          state           |-> state,
          audioContextRef |-> audioContextRef]

\* mediaRecorderRef.current.stop() is called on a recorder that is inactive
\* (constructed by a start that failed later, and never started).  The call
\* returns at once in a browser that follows the current MediaStream
\* Recording specification and throws InvalidStateError in one that follows
\* the earlier text.
StopOnInactive ==
    StopActs /\ pipelines[mediaRecorderRef].recorder = "inactive"

\* A click on the stop button, shown while state is recording: stopRecording
\* runs to its end, or, where stop() throws, ends at that call with nothing
\* changed.
StopClick ==
    /\ mounted
    /\ state = "recording"
    /\ \/ /\ pipelines' = stopRecording.pipelines
          /\ state' = stopRecording.state
          /\ audioContextRef' = stopRecording.audioContextRef
       \/ /\ StopOnInactive
          /\ UNCHANGED <<pipelines, state, audioContextRef>>
    /\ alertMsg' = AlertNone
    /\ loggedError' = ErrorNone
    /\ NoExport
    /\ UNCHANGED <<isTranscribing, bufferLimitSeconds, mediaDevices, mounted,
                   transcribeDurationSeconds, sampleRate, audioBufferRef,
                   audioChunksRef, mediaRecorderRef, streamRef, pendingStarts, tpc,
                   history, capturedBy, blobs, arrived, inFlight>>

\* A choice in the export-window selector, enabled unless transcribing or
\* recording.
SelectDuration ==
    /\ mounted
    /\ ~(isTranscribing \/ state = "recording")
    /\ \E d \in PickedDurations \cap TranscribeDurations :
        /\ d # transcribeDurationSeconds
        /\ transcribeDurationSeconds' = d
    /\ alertMsg' = AlertNone
    /\ loggedError' = ErrorNone
    /\ NoExport
    /\ UNCHANGED <<state, isTranscribing, bufferLimitSeconds, mediaDevices, mounted, sampleRate,
                   audioBufferRef, audioChunksRef, pipelines, mediaRecorderRef,
                   streamRef, audioContextRef, pendingStarts, tpc, history,
                   capturedBy, blobs, arrived, inFlight>>

\* ----------------------------------------------------------- transcribeAudio

\* a slip: the check for an empty raw buffer left out.
ExportOfUnchecked(chunks, audioBuffer, rate, duration) ==
    IF Len(chunks) = 0
    THEN [alert |-> AlertNoData, posted |-> FALSE, samplesToKeep |-> -1,
          trimmedAudioData |-> <<>>, audioBlob |-> <<>>, audioBuffer |-> audioBuffer]
    ELSE
      LET totalSamples == SumLengths(audioBuffer)
          keep         == SamplesToKeep(totalSamples, rate, duration)
          trim         == trimAudioBuffer(audioBuffer, keep)
      IN  [alert |-> AlertNone, posted |-> TRUE, samplesToKeep |-> keep,
           trimmedAudioData |-> trim.trimmed,
           audioBlob |-> createWavBlob(trim.trimmed, rate),
           audioBuffer |-> trim.audioBuffers]

\* transcribeAudio from its second look at audioChunksRef to the fetch call:
\* the alert it raises, or the snapshot and the blob it hands to fetch.
ExportOf(chunks, audioBuffer, rate, duration) ==
    IF Len(chunks) = 0
    THEN [alert |-> AlertNoData, posted |-> FALSE, samplesToKeep |-> -1,
          trimmedAudioData |-> <<>>, audioBlob |-> <<>>, audioBuffer |-> audioBuffer]
    ELSE IF Len(audioBuffer) = 0
    THEN [alert |-> AlertNoRawData, posted |-> FALSE, samplesToKeep |-> -1,
          trimmedAudioData |-> <<>>, audioBlob |-> <<>>, audioBuffer |-> audioBuffer]
    ELSE
      LET totalSamples == SumLengths(audioBuffer)
          keep         == SamplesToKeep(totalSamples, rate, duration)
          trim         == trimAudioBuffer(audioBuffer, keep)
      IN  [alert |-> AlertNone, posted |-> TRUE, samplesToKeep |-> keep,
           trimmedAudioData |-> trim.trimmed,
           audioBlob |-> createWavBlob(trim.trimmed, rate),
           audioBuffer |-> trim.audioBuffers]

\* the assignments of that part of transcribeAudio; an alert ends the call
\* through the finally block.
RunExport ==
    LET e == ExportOf(audioChunksRef, audioBufferRef, sampleRate,
                      transcribeDurationSeconds)
    IN  /\ alertMsg' = e.alert
        /\ loggedError' = ErrorNone
        /\ samplesToKeep' = e.samplesToKeep
        /\ trimmedAudioData' = e.trimmedAudioData
        /\ audioBlob' = e.audioBlob
        /\ audioBufferRef' = e.audioBuffer
        /\ tpc' = IF e.posted THEN "fetch" ELSE "idle"
        /\ isTranscribing' = e.posted

\* the recorder referenced by mediaRecorderRef is recording.
IsCurrentlyRecording ==
    mediaRecorderRef # 0 /\ pipelines[mediaRecorderRef].recorder = "recording"

\* a slip: the transcribe buttons never disabled.
TranscribeAlwaysEnabled == TRUE

\* disabled={isTranscribing} of the two transcribe buttons.
TranscribeEnabled == ~isTranscribing

\* A click on a transcribe button (shown while state is recording or
\* stopped, disabled while transcribing): transcribeAudio up to its first
\* await, or to its end when it returns before one.
TranscribeClick ==
    /\ mounted
    /\ state \in {"recording", "stopped"}
    /\ TranscribeEnabled
    /\ IF Len(audioChunksRef) = 0
       THEN /\ alertMsg' = AlertNoAudio
            /\ loggedError' = ErrorNone
            /\ NoExport
            /\ UNCHANGED <<state, isTranscribing, pipelines, audioContextRef, tpc,
                           audioBufferRef, inFlight>>
       ELSE IF IsCurrentlyRecording
       THEN /\ pipelines' = stopRecording.pipelines
            /\ state' = stopRecording.state
            /\ audioContextRef' = stopRecording.audioContextRef
            /\ isTranscribing' = TRUE
            /\ inFlight' = inFlight + 1
            /\ tpc' = "wait"
            /\ alertMsg' = AlertNone
            /\ loggedError' = ErrorNone
            /\ NoExport
            /\ UNCHANGED audioBufferRef
       ELSE /\ RunExport
            /\ inFlight' = IF audioBlob' # <<>> THEN inFlight + 1 ELSE inFlight
            /\ UNCHANGED <<state, pipelines, audioContextRef>>
    /\ UNCHANGED <<bufferLimitSeconds, mediaDevices, mounted, transcribeDurationSeconds, sampleRate,
                   audioChunksRef, mediaRecorderRef, streamRef, pendingStarts,
                   history, capturedBy, blobs, arrived>>

\* The 300 ms timer fires: transcribeAudio runs on to the fetch call or to
\* an alert.
TranscribeAfterWait ==
    /\ tpc = "wait"
    /\ RunExport
    /\ inFlight' = IF audioBlob' # <<>> THEN inFlight ELSE inFlight - 1
    /\ UNCHANGED <<state, bufferLimitSeconds, mediaDevices, mounted, transcribeDurationSeconds, sampleRate,
                   audioChunksRef, pipelines, mediaRecorderRef, streamRef,
                   audioContextRef, pendingStarts, history, capturedBy, blobs, arrived>>

\* the catch and finally blocks of transcribeAudio: the alert, and the flag
\* released.
TranscribeFailed ==
    /\ alertMsg' = AlertTranscribing
    /\ isTranscribing' = FALSE
    /\ inFlight' = inFlight - 1
    /\ tpc' = "idle"

\* a slip: a rejected fetch leaves the flag set, as if the release stood at
\* the end of the try block and not in finally.
FetchSettleNoFinally ==
    /\ tpc = "fetch"
    /\ \E outcome \in {"ok", "notOk", "rejected"} :
         IF outcome = "rejected"
         THEN /\ alertMsg' = AlertTranscribing
              /\ tpc' = "idle"
              /\ inFlight' = inFlight - 1
              /\ UNCHANGED isTranscribing
         ELSE /\ alertMsg' = AlertNone
              /\ tpc' = IF outcome = "ok" THEN "text" ELSE "errorText"
              /\ UNCHANGED <<isTranscribing, inFlight>>
    /\ loggedError' = ErrorNone
    /\ NoExport
    /\ UNCHANGED <<state, bufferLimitSeconds, mediaDevices, mounted, transcribeDurationSeconds,
                   sampleRate, audioBufferRef, audioChunksRef, pipelines,
                   mediaRecorderRef, streamRef, audioContextRef, pendingStarts,
                   history, capturedBy, blobs, arrived>>

\* The fetch settles: rejected, it is caught; resolved, transcribeAudio runs
\* on to its await of response.text(), in the branch response.ok selects.
FetchSettle ==
    /\ tpc = "fetch"
    /\ \E outcome \in {"ok", "notOk", "rejected"} :
         IF outcome = "rejected"
         THEN TranscribeFailed
         ELSE /\ alertMsg' = AlertNone
              /\ tpc' = IF outcome = "ok" THEN "text" ELSE "errorText"
              /\ UNCHANGED <<isTranscribing, inFlight>>
    /\ loggedError' = ErrorNone
    /\ NoExport
    /\ UNCHANGED <<state, bufferLimitSeconds, mediaDevices, mounted, transcribeDurationSeconds,
                   sampleRate, audioBufferRef, audioChunksRef, pipelines,
                   mediaRecorderRef, streamRef, audioContextRef, pendingStarts,
                   history, capturedBy, blobs, arrived>>

\* response.text() settles.  The body of an OK response that parses ends the
\* call without an alert; a body that does not arrive or does not parse, and
\* every body of a non-OK response, ends it through the catch block.  The
\* finally block releases the flag.
TextSettle ==
    /\ tpc \in {"text", "errorText"}
    /\ \E parsed \in BOOLEAN :
         IF tpc = "text" /\ parsed
         THEN /\ alertMsg' = AlertNone
              /\ isTranscribing' = FALSE
              /\ inFlight' = inFlight - 1
              /\ tpc' = "idle"
         ELSE TranscribeFailed
    /\ loggedError' = ErrorNone
    /\ NoExport
    /\ UNCHANGED <<state, bufferLimitSeconds, mediaDevices, mounted, transcribeDurationSeconds,
                   sampleRate, audioBufferRef, audioChunksRef, pipelines,
                   mediaRecorderRef, streamRef, audioContextRef, pendingStarts,
                   history, capturedBy, blobs, arrived>>

\* ------------------------------------------------------------ specification

Next ==
    \/ StartClick
    \/ GetUserMediaResolve
    \/ GetUserMediaReject
    \/ Unmount
    \/ Capture
    \/ DataAvailable
    \/ StopClick
    \/ SelectDuration
    \/ TranscribeClick
    \/ TranscribeAfterWait
    \/ FetchSettle
    \/ TextSettle

Spec == Init /\ [][Next]_vars

\* The page with its awaited steps settling: the fetch of transcribeAudio
\* resolves or rejects, the body of its response arrives or fails, and its
\* 300 ms timer fires.  TranscribeAfterWait is
\* enabled exactly while tpc is "wait" and every step of it leaves "wait", so
\* its weak fairness is the formula []<>(tpc # "wait").
LiveSpec ==
    /\ Init
    /\ [][Next]_vars
    /\ WF_vars(FetchSettle)
    /\ WF_vars(TextSettle)
    /\ []<>(tpc # "wait")

\* ------------------------------------------- the buffer alone, one session

\* the page right after startRecording has run to its end with an
\* AudioContext of rate r.
SessionStarted(r) ==
    /\ state = "recording"
    /\ isTranscribing = FALSE
    /\ bufferLimitSeconds = BufferLimitDefault
    /\ mediaDevices = TRUE
    /\ mounted = TRUE
    /\ transcribeDurationSeconds = TranscribeDurationDefault
    /\ sampleRate = r
    /\ audioBufferRef = <<>>
    /\ audioChunksRef = <<>>
    /\ pipelines = <<[recorder |-> "recording", final |-> FALSE,
                      tracks |-> "live", context |-> "running",
                      processor |-> "connected"]>>
    /\ mediaRecorderRef = 1
    /\ streamRef = 1
    /\ audioContextRef = 1
    /\ pendingStarts = 0
    /\ tpc = "idle"
    /\ samplesToKeep = -1
    /\ trimmedAudioData = <<>>
    /\ audioBlob = <<>>
    /\ alertMsg = AlertNone
    /\ loggedError = ErrorNone
    /\ history = <<>>
    /\ capturedBy = <<>>
    /\ blobs = 0
    /\ arrived = <<>>
    /\ inFlight = 0

BufferInit == \E r \in SampleRates : SessionStarted(r)

\* the capture callbacks of one session, longer runs and more chunk lengths.
BufferAppend ==
    /\ Len(history) < MaxAppends
    /\ \E n \in BufferChunkSizes : AudioProcess(1, InputData(n))

BufferNext == BufferAppend

BufferSpec == BufferInit /\ [][BufferNext]_vars

\* ------------------------------------- the recorder chunks alone, one session

\* the page right after startRecording has run to its end.
ChunkInit == SessionStarted(SampleRateDefault)

\* one more dataavailable event of the session's recorder, empty or not.
ChunkEvent ==
    /\ blobs < ChunkMaxEvents
    /\ \E size \in BlobSizes : DataAvailableEvent(1, size)

ChunkNext == ChunkEvent

ChunkSpec == ChunkInit /\ [][ChunkNext]_vars

\* --------------------------------------------- the encoder, one chunk held

\* the page after a session at rate r that captured one chunk and one
\* recorder blob and was stopped, its last dataavailable event delivered.
SessionStopped(r, chunk) ==
    /\ state = "stopped"
    /\ isTranscribing = FALSE
    /\ bufferLimitSeconds = BufferLimitDefault
    /\ mediaDevices = TRUE
    /\ mounted = TRUE
    /\ transcribeDurationSeconds = TranscribeDurationDefault
    /\ sampleRate = r
    /\ audioBufferRef = <<chunk>>
    /\ audioChunksRef = <<1>>
    /\ pipelines = <<[recorder |-> "inactive", final |-> FALSE,
                      tracks |-> "ended", context |-> "closed",
                      processor |-> "connected"]>>
    /\ mediaRecorderRef = 1
    /\ streamRef = 1
    /\ audioContextRef = 0
    /\ pendingStarts = 0
    /\ tpc = "idle"
    /\ samplesToKeep = -1
    /\ trimmedAudioData = <<>>
    /\ audioBlob = <<>>
    /\ alertMsg = AlertNone
    /\ loggedError = ErrorNone
    /\ history = <<chunk>>
    /\ capturedBy = <<TRUE>>
    /\ blobs = 2
    /\ arrived = <<1>>
    /\ inFlight = 0

\* a chunk of n samples, all 0.5.
ScenarioChunk(n) == [j \in 1..n |-> Scenario.sample]

\* one sample of EncodeSamples held, or an empty chunk, or the chunk of the
\* worked scenario: 16000 samples of 0.5 at 16000 Hz.
EncodeInit ==
    \/ \E x \in EncodeSamples, r \in SampleRates :
         SessionStopped(r, <<x>>)
    \/ \E r \in SampleRates :
         SessionStopped(r, <<>>)
    \/ SessionStopped(Scenario.rate, ScenarioChunk(Scenario.rate))

\* transcription requests on the stopped page and their fetches.
EncodeNext == TranscribeClick \/ FetchSettle \/ TextSettle

EncodeSpec == EncodeInit /\ [][EncodeNext]_vars


\* ---------------------------------------------------------------------------
\* Properties.

\* what the raw buffer holds, and what the retention window allows.
Retained == SumLengths(audioBufferRef)
Ceiling == sampleRate * bufferLimitSeconds
\* the samples the capture callbacks have appended in this session.
Appended == SumLengths(history)
\* the lengths of the chunks of a list.
ChunkLengths(audioBuffers) ==
    [c \in 1..Len(audioBuffers) |-> Len(audioBuffers[c])]
\* a transcription request has built its WAV in this step.
Exported == audioBlob # <<>>
\* the samples the selected duration asks for.
Requested == transcribeDurationSeconds * sampleRate

\* C1 as stated: after every append the retained sample count is at most
\* sample rate times retention window.
C1_Original == Retained <= Ceiling

\* C1: after every append the retained sample count is at most sample rate
\* times retention window whenever more than one chunk is retained; the
\* newest chunk is never evicted, so a buffer of one chunk may exceed it.
C1_CeilingUnlessSingleChunk ==
    /\ Len(audioBufferRef) > 1 => Retained <= Ceiling
    /\ history # <<>> =>
         /\ audioBufferRef # <<>>
         /\ audioBufferRef[Len(audioBufferRef)] = history[Len(history)]

\* chunks were evicted and more than one chunk is still retained.
C1_Witness ==
    /\ Len(audioBufferRef) > 1
    /\ Len(history) > Len(audioBufferRef)
    /\ Appended > Ceiling

\* the first chunk of the longest suffix of whole chunks of h that fits in
\* max samples; the newest chunk if none fits.
KeptFrom(h, max) ==
    LET fits == {k \in 1..Len(h) : SumLengths(SubSeq(h, k, Len(h))) <= max}
    IN  IF fits = {} THEN Len(h)
        ELSE CHOOSE k \in fits : \A j \in fits : k <= j

\* C2 as stated: the retained count is the smaller of the ceiling and the
\* number of samples appended since the session began.
C2_Original == Retained = Min(Ceiling, Appended)

\* C2: while the samples appended since the session began do not exceed the
\* ceiling all of them are retained; beyond that the retained chunks are the
\* longest suffix of whole appended chunks that fits under the ceiling (the
\* newest chunk alone if it does not fit), so the count may be below the
\* ceiling, or above it for a single chunk.
C2_LongestFittingChunkSuffix ==
    /\ Appended <= Ceiling => audioBufferRef = history
    /\ history # <<>> =>
         audioBufferRef =
           SubSeq(history, KeptFrom(history, Ceiling), Len(history))

\* more than the ceiling was appended and whole-chunk eviction left the
\* buffer strictly below the ceiling.
C2_Witness ==
    /\ Appended > Ceiling
    /\ Retained < Ceiling
    /\ Len(audioBufferRef) > 1

\* the last n samples of a flat sample sequence.
LastOf(flat, n) == SubSeq(flat, Len(flat) - n + 1, Len(flat))

\* C4 as stated: an export requested once at least duration times sample
\* rate samples have been appended holds exactly that many samples.
C4_Original ==
    Exported /\ Requested <= Appended => Len(trimmedAudioData) = Requested

\* C4: for every selectable duration, the retention window included, an
\* export requested while at least duration times sample rate samples are
\* retained holds exactly that many samples, the last ones captured; the
\* retained count, not the appended count, is what matters, because whole
\* chunks are evicted.
C4_FullWindowWhenRetained ==
    Exported /\ Requested <= Retained =>
        /\ samplesToKeep = Requested
        /\ Len(trimmedAudioData) = Requested
        /\ trimmedAudioData = LastOf(Flatten(history), Requested)
        /\ Len(audioBlob) = 44 + 2 * Requested

\* an export of the whole retention window, every sample of it delivered.
C4_Witness ==
    /\ Exported
    /\ transcribeDurationSeconds = bufferLimitSeconds
    /\ Requested <= Retained
    /\ Len(trimmedAudioData) = Requested

\* C5: when the requested duration is shorter than what is retained, the
\* snapshot has exactly duration times sample rate samples, and sample i of
\* it is sample i of the last that many samples of the retained sequence.
C5_ShortExportIsExactSuffix ==
    Exported /\ Requested < Retained =>
        /\ Len(trimmedAudioData) = Requested
        /\ \A i \in 1..Requested :
             trimmedAudioData[i] =
               Flatten(audioBufferRef)[Retained - Requested + i]

\* a short export whose samples come from two retained chunks.
C5_Witness ==
    /\ Exported
    /\ Requested < Retained
    /\ Len(audioBufferRef) > 1
    /\ Requested > Len(audioBufferRef[Len(audioBufferRef)])

\* C6: a snapshot requested with at least as many samples as are retained is
\* the retained sequence itself, of the retained length (empty for an empty
\* buffer), never padded; an export whose request covers the buffer is a WAV
\* of exactly the retained samples, produced without an alert.
C6_SaturatingSnapshot ==
    /\ \A k \in Retained..(Retained + MaxExtraRequested) :
         LET t == trimAudioBuffer(audioBufferRef, k).trimmed
         IN  /\ Len(t) = Retained
             /\ t = Flatten(audioBufferRef)
    /\ Exported /\ samplesToKeep >= Retained =>
         /\ trimmedAudioData = Flatten(audioBufferRef)
         /\ Len(audioBlob) = 44 + 2 * Retained
         /\ alertMsg = AlertNone

\* an export that asked for more than is retained and delivered all of it.
C6_Witness ==
    /\ Exported
    /\ Requested > Retained
    /\ Retained > 0
    /\ Len(trimmedAudioData) = Retained

\* the position before the first sample of chunk c in the retained sequence.
OffsetOf(c) == SumLengths(SubSeq(audioBufferRef, 1, c - 1))

\* C7: a snapshot requested with at least the retained count has one element
\* per retained sample, and sample o of chunk c sits at the position given by
\* the lengths of the chunks stored before c: stored order, nothing repeated,
\* nothing left out.
C7_OrderPreserved ==
    LET t == trimAudioBuffer(audioBufferRef, Retained + MaxExtraRequested).trimmed
    IN  /\ Len(t) = Retained
        /\ \A c \in 1..Len(audioBufferRef) :
             \A o \in 1..Len(audioBufferRef[c]) :
               t[OffsetOf(c) + o] = audioBufferRef[c][o]

\* an export of everything retained, taken from two non-empty chunks.
C7_Witness ==
    /\ Exported
    /\ samplesToKeep = Retained
    /\ Len(audioBufferRef) = 2
    /\ \A c \in 1..2 : Len(audioBufferRef[c]) > 0

\* C8: the step in which a transcription request takes its snapshot leaves
\* the retained chunk list as it was, and a second snapshot of the same
\* length taken right after returns the same sequence.
C8_SnapshotReadOnly ==
    [][audioBlob' # <<>> =>
         /\ audioBufferRef' = audioBufferRef
         /\ trimAudioBuffer(audioBufferRef', samplesToKeep').trimmed
              = trimmedAudioData']_vars

\* a snapshot that covers only the newest chunk, with an older chunk still
\* retained after it.
C8_Witness ==
    /\ Exported
    /\ Len(audioBufferRef) = 2
    /\ samplesToKeep <= Len(audioBufferRef[2])
    /\ Len(audioBufferRef[1]) > 0

\* the alerts that abort a transcription request for lack of data.
NoDataAlerts == {AlertNoAudio, AlertNoData, AlertNoRawData}

\* C9 as stated: no transcription request ends in an alert for lack of data.
C9_Original == alertMsg \notin NoDataAlerts

\* C9: a transcription request ends in an alert, with nothing handed to the
\* uploader and the request over, exactly in case the recorder chunk list or
\* the raw buffer is empty when it looks; with both non-empty and less audio
\* than requested it raises no alert and hands the uploader a WAV of all the
\* retained samples, or all but the oldest one.
C9_AlertOnlyWhenEmptyElseShortWav ==
    /\ alertMsg \in NoDataAlerts =>
         /\ audioChunksRef = <<>> \/ audioBufferRef = <<>>
         /\ audioBlob = <<>>
         /\ tpc = "idle"
         /\ ~isTranscribing
    /\ Exported =>
         /\ audioChunksRef # <<>>
         /\ audioBufferRef # <<>>
         /\ alertMsg = AlertNone
         /\ tpc = "fetch"
         /\ isTranscribing
    /\ Exported /\ Requested > Retained =>
         /\ Len(trimmedAudioData) \in {Retained - 1, Retained}
         /\ trimmedAudioData = LastOf(Flatten(audioBufferRef), samplesToKeep)
         /\ Len(audioBlob) = 44 + 2 * Len(trimmedAudioData)

\* a request made right after the session started, before any audio chunk
\* or recorder chunk arrived, ended in the alert.
C9_Witness ==
    /\ alertMsg = AlertNoAudio
    /\ state = "recording"
    /\ history = <<>>
    /\ audioBlob = <<>>

\* the little-endian reading of a byte sequence, as an unsigned integer.
RECURSIVE FromLittleEndian(_)
FromLittleEndian(bytes) ==
    IF bytes = <<>> THEN 0 ELSE Head(bytes) + 256 * FromLittleEndian(Tail(bytes))

\* the n-byte little-endian field at byte offset off of a file.
Field(file, off, n) == FromLittleEndian(SubSeq(file, off + 1, off + n))

\* the canonical layout of a mono 16-bit PCM WAV file of n samples at rate r.
WavLayout(file, n, r) ==
    /\ Len(file) = 44 + 2 * n
    /\ \A b \in 1..Len(file) : file[b] \in 0..255
    /\ SubSeq(file, 1, 4) = <<82, 73, 70, 70>>
    /\ Field(file, 4, 4) = 36 + 2 * n
    /\ SubSeq(file, 9, 12) = <<87, 65, 86, 69>>
    /\ SubSeq(file, 13, 16) = <<102, 109, 116, 32>>
    /\ Field(file, 16, 4) = 16
    /\ Field(file, 20, 2) = 1
    /\ Field(file, 22, 2) = 1
    /\ Field(file, 24, 4) = r
    /\ Field(file, 28, 4) = 2 * r
    /\ Field(file, 32, 2) = 2
    /\ Field(file, 34, 2) = 16
    /\ SubSeq(file, 37, 40) = <<100, 97, 116, 97>>
    /\ Field(file, 40, 4) = 2 * n

\* C10: the encoder output for n samples at rate r is 44 + 2n bytes laid out
\* as RIFF, 36 + 2n, WAVE, fmt, 16, 1, 1, r, 2r, 2, 16, data, 2n, little-endian,
\* for the exported file and for every sample rate; for no samples it is the
\* 44-byte header alone.
C10_WavLayout ==
    /\ Exported => WavLayout(audioBlob, Len(trimmedAudioData), sampleRate)
    /\ Exported /\ trimmedAudioData = <<>> => Len(audioBlob) = 44
    /\ \A r \in WavRates :
         LET file == createWavBlob(trimmedAudioData, r)
         IN  WavLayout(file, Len(trimmedAudioData), r)

\* an export of no samples: the file is the 44-byte header.
C10_Witness ==
    /\ Exported
    /\ Len(trimmedAudioData) = 0
    /\ Len(audioBlob) = 44


\* payload sample i of a WAV file, read as a little-endian signed 16-bit value.
PayloadValue(file, i) ==
    LET u == file[44 + 2 * i - 1] + 256 * file[44 + 2 * i]
    IN  IF u >= 32768 THEN u - 65536 ELSE u

\* a sample limited to [-1, 1].
Clamped(x) ==
    IF x > SampleUnit THEN SampleUnit
    ELSE IF x < -SampleUnit THEN -SampleUnit ELSE x

\* q = trunc(c * 32768) for a sample c < 0: with c = -m / 2^30,
\* |q| <= m / 2^15 < |q| + 1.
IsTruncNeg(c, q) ==
    /\ q <= 0
    /\ (-q) * 32768 <= -c
    /\ -c < (1 - q) * 32768

\* q = trunc(c * 32767) for a sample c >= 0: with c = m / 2^30,
\* q <= (m - m / 2^15) / 2^15 < q + 1; q being an integer, the real
\* m - m / 2^15 may be rounded down on both sides.
IsTruncPos(c, q) ==
    LET low == c - ((c + 32767) \div 32768)
    IN  /\ q >= 0
        /\ q * 32768 <= low
        /\ low < (q + 1) * 32768

\* C11: every sample of an exported snapshot, in range or not, is stored as
\* the signed 16-bit value trunc(c * 32768) when c < 0 and trunc(c * 32767)
\* when c >= 0, c being the sample clamped to [-1, 1]; every stored value is
\* in [-32768, 32767], a sample >= 1 is stored as 32767 and a sample <= -1
\* as -32768.
C11_QuantizationRule ==
    Exported =>
      \A i \in 1..Len(trimmedAudioData) :
        LET x == trimmedAudioData[i]
            c == Clamped(x)
            q == PayloadValue(audioBlob, i)
        IN  /\ q \in -32768..32767
            /\ c < 0 => IsTruncNeg(c, q)
            /\ c >= 0 => IsTruncPos(c, q)
            /\ x >= SampleUnit => q = 32767
            /\ x <= -SampleUnit => q = -32768

\* a sample beyond 1 was exported and stored as 32767.
C11_Witness ==
    /\ Exported
    /\ Len(trimmedAudioData) = 1
    /\ trimmedAudioData[1] > SampleUnit
    /\ PayloadValue(audioBlob, 1) = 32767

\* the snapshot of the worked scenario was exported: 16000 samples of 0.5
\* at 16000 Hz.
ScenarioExported ==
    /\ Exported
    /\ sampleRate = 16000
    /\ Len(trimmedAudioData) = 16000
    /\ \A i \in 1..16000 : trimmedAudioData[i] = 536870912

\* C12 as stated: 16000 samples of 0.5 at 16000 Hz encode to 32044 bytes in
\* which every payload sample is 16384.
C12_Original ==
    ScenarioExported =>
      /\ Len(audioBlob) = 32044
      /\ \A i \in 1..16000 : PayloadValue(audioBlob, i) = 16384

\* C12: 16000 samples of 0.5 at 16000 Hz encode to 32044 bytes in which
\* every payload sample is the little-endian signed 16-bit value 16383, the
\* truncation of 0.5 * 32767 = 16383.5 (bytes 255, 63).
C12_ScenarioPayload16383 ==
    ScenarioExported =>
      /\ Len(audioBlob) = 32044
      /\ \A i \in 1..16000 :
           /\ PayloadValue(audioBlob, i) = 16383
           /\ audioBlob[44 + 2 * i - 1] = 255
           /\ audioBlob[44 + 2 * i] = 63

\* the scenario snapshot was exported as a file of 32044 bytes.
C12_Witness == ScenarioExported /\ Len(audioBlob) = 32044

\* The decoding error of a stored value q against its sample x >= 0, as the
\* number D = x * 32767 * 2^30 - q * 2^30 = 2^15 * part + rest / 1, where
\* x = (hi * 2^15 + lo) / 2^30, part = hi * 32767 - q * 2^15 and
\* rest = lo * 32767; the error is |D| / (32767 * 2^30).
ErrPart(x, q) == (x \div 32768) * 32767 - q * 32768
ErrRest(x) == (x % 32768) * 32767

\* the error is at most 1 / 32768: |D| <= 32767 * 2^15.
PosErrAtMostStep(x, q) ==
    /\ ErrPart(x, q) + ((ErrRest(x) + 32767) \div 32768) <= 32767
    /\ ErrPart(x, q) + (ErrRest(x) \div 32768) >= -32767

\* the error is below 1 / 32767: |D| < 2^30.
PosErrBelowCoarseStep(x, q) ==
    /\ ErrPart(x, q) + (ErrRest(x) \div 32768) < 32768
    /\ ErrPart(x, q) + ((ErrRest(x) + 32767) \div 32768) > -32768

\* the decoding error of q against a sample x < 0, decoded as q / 32768, in
\* units of 2^-30.
NegErr(x, q) ==
    IF q * 32768 >= x THEN q * 32768 - x ELSE x - q * 32768

\* C13 as stated: every exported sample in [-1, 1] decodes to a value within
\* 1 / 32768 of it.
C13_Original ==
    Exported =>
      \A i \in 1..Len(trimmedAudioData) :
        LET x == trimmedAudioData[i]
            q == PayloadValue(audioBlob, i)
        IN  /\ x >= 0 /\ x <= SampleUnit => q >= 0 /\ PosErrAtMostStep(x, q)
            /\ x < 0 /\ x >= -SampleUnit => q <= 0 /\ NegErr(x, q) <= 32768

\* C13: every exported sample x in [-1, 1] decodes (q / 32768 for q < 0,
\* q / 32767 for q >= 0) to a value that differs from x by less than
\* 1 / 32767, and by less than 1 / 32768 when x < 0.
C13_RoundTripWithinCoarseStep ==
    Exported =>
      \A i \in 1..Len(trimmedAudioData) :
        LET x == trimmedAudioData[i]
            q == PayloadValue(audioBlob, i)
        IN  /\ x >= 0 /\ x <= SampleUnit => q >= 0 /\ PosErrBelowCoarseStep(x, q)
            /\ x < 0 /\ x >= -SampleUnit => q <= 0 /\ NegErr(x, q) < 32768

\* a sample just above 0.5 was exported and stored as 16383, more than
\* 1 / 32768 below it.
C13_Witness ==
    /\ Exported
    /\ Len(trimmedAudioData) = 1
    /\ trimmedAudioData[1] = 536887296
    /\ PayloadValue(audioBlob, 1) = 16383
    /\ ~PosErrAtMostStep(trimmedAudioData[1], PayloadValue(audioBlob, 1))

\* the pipelines whose AudioContext runs with a connected processor: their
\* onaudioprocess fires.
RunningContexts == {p \in 1..Len(pipelines) : Capturing(pipelines[p])}

\* the pipelines whose MediaRecorder records: their ondataavailable fires.
RecordingRecorders == {p \in 1..Len(pipelines) : pipelines[p].recorder = "recording"}

\* The chunks of history pushed by the context of the latest start, the one
\* audioContextRef pointed at when they were pushed.
OfCurrentSession == {k \in 1..Len(history) : capturedBy[k]}

\* C14 as stated: from a start of a session on, while no chunk of the new
\* session has been appended, the retained count is 0.
C14_Original == OfCurrentSession = {} => Retained = 0

\* a step in which startRecording passes getUserMedia and runs to its end:
\* the only step that starts a session.
SessionStartStep ==
    /\ pendingStarts' = pendingStarts - 1
    /\ state' = "recording"
    /\ history' = <<>>
    /\ audioBufferRef' = <<>>

\* C15 as stated: the session sample rate changes only in a step that starts
\* a recording session; no capture callback, stop, selection, snapshot or
\* transcribe step, and no start that fails, changes it.
C15_Original ==
    [][sampleRate' # sampleRate => SessionStartStep]_vars

\* the page never left idle, so no session has started, yet the rate is that
\* of the context of a start that failed after its processor was connected
\* (at a later statement up to mediaRecorder.start), and that context has
\* pushed a chunk.
C15_Witness ==
    /\ state = "idle"
    /\ sampleRate = 11
    /\ RecordingRecorders = {}
    /\ audioContextRef # 0
    /\ Len(history) > 0

\* the place in history of chunk k of the retained buffer, which holds the
\* last Len(audioBufferRef) chunks pushed.
HistoryIndex(k) == Len(history) - Len(audioBufferRef) + k

\* C16 as stated: every retained chunk was captured in the current session,
\* by the context of the latest start; a snapshot is exported from the
\* retained chunks of the state it is taken in, so it holds no other samples.
C16_Original ==
    /\ Len(audioBufferRef) <= Len(history)
    /\ \A k \in 1..Len(audioBufferRef) :
         /\ audioBufferRef[k] = history[HistoryIndex(k)]
         /\ HistoryIndex(k) \in OfCurrentSession

\* a snapshot was exported whose samples were all pushed by the context of
\* an earlier start, none by the context of the session.
C16_Witness ==
    /\ Exported
    /\ Len(trimmedAudioData) > 0
    /\ audioBufferRef # <<>>
    /\ OfCurrentSession = {}

\* a step in which a capture callback pushes one chunk.
AppendStep == Len(history') = Len(history) + 1

\* what a snapshot can observe in a state: whole chunks, the last ones
\* pushed, none in part; an exported snapshot is cut from them and nothing
\* else.
WholeChunksRetained ==
    /\ Len(audioBufferRef) <= Len(history)
    /\ \A k \in 1..Len(audioBufferRef) : audioBufferRef[k] = history[HistoryIndex(k)]
    /\ Exported =>
         /\ samplesToKeep <= Retained
         /\ trimmedAudioData = LastOf(Flatten(audioBufferRef), samplesToKeep)

\* a step either pushes a chunk and applies the matching eviction in the same
\* step (more than one chunk is left only at or under the ceiling of the rate
\* the callback read), or leaves the buffer as it was or empties it.
WholeAppendOrNone ==
    IF AppendStep
    THEN Len(audioBufferRef') > 1 =>
           SumLengths(audioBufferRef') <= sampleRate * bufferLimitSeconds
    ELSE audioBufferRef' \in {audioBufferRef, <<>>}

\* C17: the buffer a snapshot can observe, the one of any state, is the
\* outcome of whole append-and-evict steps: it holds whole chunks (the last
\* ones pushed, none in part), every push comes with its eviction applied in
\* the same step, and no other step changes the buffer but to empty it; an
\* exported snapshot is cut from that buffer and nothing else.
C17_SnapshotSeesWholeSteps ==
    /\ []WholeChunksRetained
    /\ [][WholeAppendOrNone]_vars

\* a snapshot was exported from a buffer that a capture callback had pushed
\* to and evicted from.
C17_Witness ==
    /\ Exported
    /\ Len(trimmedAudioData) > 0
    /\ Len(audioBufferRef) >= 1
    /\ Len(history) > Len(audioBufferRef)

\* a step in which the capture callback is given a chunk of length 0.
EmptyAppendStep == history' = Append(history, <<>>)

\* C18 as stated: an append of a chunk of length 0 leaves the retained
\* sample sequence as it was, in every buffer state.
C18_Original ==
    [][EmptyAppendStep => Flatten(audioBufferRef') = Flatten(audioBufferRef)]_vars

\* C18: an append of a chunk of length 0 adds an empty chunk and leaves the
\* retained samples as they were when the retained count is at or under the
\* ceiling; when it is over the ceiling (a single over-long chunk is held)
\* that chunk is evicted and no sample stays retained.
C18_EmptyChunkNoOpUnlessOverCeiling ==
    [][EmptyAppendStep =>
         IF Retained <= Ceiling
         THEN audioBufferRef' = Append(audioBufferRef, <<>>)
         ELSE Len(audioBufferRef) = 1 /\ audioBufferRef' = << <<>> >>]_vars

\* an empty chunk followed a single chunk longer than the ceiling, and later
\* another empty chunk was appended to a buffer that still retains samples.
C18_Witness ==
    /\ Len(history) >= 4
    /\ Len(history[1]) > Ceiling
    /\ history[2] = <<>>
    /\ history[Len(history)] = <<>>
    /\ Retained > 0

\* C20: at most one execution of transcribeAudio is between its
\* setIsTranscribing(true) and its finally block; one is there exactly while
\* isTranscribing holds, which disables both transcribe buttons, and exactly
\* then a timer, a fetch or a response body of transcribeAudio is awaited.
C20_SingleConsumer ==
    /\ inFlight \in {0, 1}
    /\ inFlight = 1 <=> isTranscribing
    /\ inFlight = 1 <=> tpc # "idle"

\* an upload is awaited while a later session records and shows its
\* transcribe button, which is disabled.
C20_Witness ==
    /\ inFlight = 1
    /\ tpc = "fetch"
    /\ state = "recording"
    /\ IsCurrentlyRecording
    /\ Len(audioChunksRef) > 0

\* C21: the recorder chunk buffer holds at most 300 chunks, and they are
\* the most recent min(300, n) of the n non-empty chunks delivered since
\* the session started, in arrival order; an empty chunk is never stored.
C21_RollingChunkWindow ==
    /\ Len(audioChunksRef) <= 300
    /\ Len(audioChunksRef) = Min(300, Len(arrived))
    /\ audioChunksRef = LastOf(arrived, Len(audioChunksRef))
    /\ Len(arrived) <= blobs

\* more than 300 non-empty chunks and an empty one were delivered: the
\* oldest non-empty chunks are gone, the 300 latest are held.
C21_Witness ==
    /\ Len(arrived) > 300
    /\ blobs > Len(arrived)
    /\ Len(audioChunksRef) = 300
    /\ audioChunksRef[1] = arrived[Len(arrived) - 299]
    /\ audioChunksRef[1] > 1

\* a step that ends with the page stopped and starts no session: the stop
\* itself, or any step taken while stopped.
StoppedStep == state \in {"recording", "stopped"} /\ state' = "stopped"

\* C22 as stated: the step that stops the recording removes nothing from
\* the retained audio, and while the page stays stopped (no new session
\* started) the retained samples stay the ones of the time of the stop, so a
\* later transcribe exports from them.
C22_Original ==
    [][StoppedStep => (audioBufferRef' = audioBufferRef
                       /\ Len(audioChunksRef') >= Len(audioChunksRef))]_vars

\* C23 as stated: at most one capture pipeline delivers chunks into the
\* shared buffers, also after two overlapping startRecording calls.
C23_Original ==
    /\ Cardinality(RunningContexts) <= 1
    /\ Cardinality(RecordingRecorders) <= 1

\* two contexts run, and the retained buffer holds a chunk pushed by each.
C23_Witness ==
    /\ Cardinality(RunningContexts) = 2
    /\ Len(audioBufferRef) = 2
    /\ Len(history) = 2
    /\ capturedBy[1] # capturedBy[2]

\* a change of the recording state that startRecording makes when it has
\* passed getUserMedia: from idle or stopped to recording.
StartTransition ==
    /\ state \in {"idle", "stopped"}
    /\ state' = "recording"
    /\ pendingStarts' = pendingStarts - 1
    /\ mediaRecorderRef' = Len(pipelines')
    /\ pipelines'[mediaRecorderRef'].recorder = "recording"

\* a change of the recording state that stopRecording makes: from recording
\* to stopped, the referenced recorder stopped and the context released.
StopTransition ==
    /\ state = "recording"
    /\ state' = "stopped"
    /\ StopActs
    /\ audioContextRef' = 0
    /\ pendingStarts' = pendingStarts

\* C24: the recording state starts as idle and changes only from idle or
\* stopped to recording, when startRecording succeeds, and from recording
\* to stopped, through stopRecording; so it never returns to idle and never
\* goes from idle to stopped.
C24_RecordingStateMachine ==
    /\ state = "idle"
    /\ [][state' # state => (StartTransition \/ StopTransition)]_vars

\* a second session records while the recorder of the first, stopped one
\* still owes its last dataavailable event: idle, recording, stopped,
\* recording.
C24_Witness ==
    /\ state = "recording"
    /\ Len(pipelines) = 2
    /\ pipelines[1].recorder = "inactive"
    /\ pipelines[1].context = "closed"
    /\ pipelines[2].recorder = "recording"
    /\ mediaRecorderRef = 2

\* a step in which a getUserMedia call of startRecording rejects: the catch
\* block logs the rejection and raises the microphone alert.
RejectStep ==
    /\ pendingStarts' = pendingStarts - 1
    /\ loggedError' = ErrorGetUserMedia
    /\ alertMsg' = AlertMicrophone

\* C25: a rejected getUserMedia leaves the recording state, the raw sample
\* buffer, the recorder chunks, the session sample rate and the recorder,
\* stream and context references as they were.
C25_RejectChangesNothing ==
    [][RejectStep =>
         UNCHANGED <<state, audioBufferRef, audioChunksRef, sampleRate,
                     mediaRecorderRef, streamRef, audioContextRef, pipelines>>]_vars

\* a resume from the stopped state was refused the microphone while samples
\* and a recorder chunk of the stopped session were retained.
C25_Witness ==
    /\ alertMsg = AlertMicrophone
    /\ loggedError = ErrorGetUserMedia
    /\ state = "stopped"
    /\ Retained > 0
    /\ Len(audioChunksRef) > 0
    /\ sampleRate \in SampleRates
    /\ mediaRecorderRef # 0

\* C26: whenever isTranscribing is true it becomes false again, whichever
\* way transcribeAudio ends: a parsed response, an error the catch block
\* alerts, or a return from inside the try block after the wait.
C26_TranscribingReleased == isTranscribing ~> ~isTranscribing

\* the flag is down again after an upload that failed.
C26_Witness ==
    /\ ~isTranscribing
    /\ inFlight = 0
    /\ alertMsg = AlertTranscribing

\* the step in which a transcribeAudio that was invoked while recording, and
\* has called stopRecording and waited 300 ms, takes its snapshot.
SnapshotAfterWaitStep == tpc = "wait" /\ tpc' # "wait"

\* C27 as stated, at the moment of the snapshot: the recording state is
\* stopped and no producer appends to the buffers.
C27_Original ==
    [][SnapshotAfterWaitStep =>
         (state = "stopped" /\ RunningContexts = {} /\ RecordingRecorders = {})]_vars

\* a snapshot was exported after the wait while a session that was resumed
\* during the wait records, its context running.
C27_Witness ==
    /\ Exported
    /\ tpc = "fetch"
    /\ state = "recording"
    /\ IsCurrentlyRecording
    /\ audioContextRef # 0
    /\ pipelines[audioContextRef].context = "running"
    /\ Cardinality(RunningContexts) = 1

\* C28: an append-and-evict step leaves the pushed buffer without some of
\* its first chunks, whole ones and no others, and never without the chunk
\* just pushed, which stays the last chunk in full even when it alone
\* exceeds the ceiling.
C28_EvictionFrontOnlyWholeChunks ==
    [][AppendStep =>
         LET chunk  == history'[Len(history')]
             pushed == Append(audioBufferRef, chunk)
         IN  /\ Len(audioBufferRef') >= 1
             /\ audioBufferRef'[Len(audioBufferRef')] = chunk
             /\ \E k \in 0..Len(audioBufferRef) :
                  audioBufferRef' = SubSeq(pushed, k + 1, Len(pushed))]_vars

\* an append evicted every older chunk and retains the new chunk alone,
\* which is longer than the ceiling.
C28_Witness ==
    /\ Len(history) > 1
    /\ Len(audioBufferRef) = 1
    /\ audioBufferRef[1] = history[Len(history)]
    /\ Len(history[Len(history) - 1]) > 0
    /\ Retained > Ceiling

\* C29: the concatenation of the retained chunks is the last Retained
\* samples of the concatenation of all chunks pushed since the buffer was
\* reset at the start of the session: a contiguous suffix in the original
\* order, with no gap, no duplicate and no other sample.
C29_RetainedIsSuffixOfStream ==
    /\ Retained <= Appended
    /\ Flatten(audioBufferRef) = LastOf(Flatten(history), Retained)

\* samples were evicted: what is retained is a proper, non-empty suffix of
\* what was appended.
C29_Witness ==
    /\ Retained > 0
    /\ Retained < Appended
    /\ Flatten(audioBufferRef)[1] = Flatten(history)[Appended - Retained + 1]
    /\ Flatten(audioBufferRef)[1] # Flatten(history)[1]

\* the number of chunks evicted since the buffer was reset; the chunk of
\* history at that place is the most recently evicted one.
EvictedCount == Len(history) - Len(audioBufferRef)

\* C30: while no chunk has been evicted the retained count is the number of
\* samples appended; afterwards the retained count plus the length of the
\* most recently evicted chunk exceeds the ceiling.
C30_EvictionMinimal ==
    /\ EvictedCount >= 0
    /\ EvictedCount = 0 => Retained = Appended
    /\ EvictedCount > 0 => Retained + Len(history[EvictedCount]) > Ceiling

\* chunks were evicted down to several chunks at or under the ceiling, and
\* the last evicted chunk would not have fitted.
C30_Witness ==
    /\ EvictedCount > 0
    /\ Len(audioBufferRef) > 1
    /\ Retained <= Ceiling
    /\ Len(history[EvictedCount]) > 0
    /\ Retained + Len(history[EvictedCount]) > Ceiling

====
